---- MODULE Spec2Model ----
(***************************************************************************)
(* A model of the comphub execution backend: the HTTP handler              *)
(* CompileProgram, the workspace helpers CreateFile / DeleteFile and the   *)
(* per-language executors ExecuteJS, ExecuteGo, ExecuteCPP, ExecuteJava    *)
(* (and ExecuteC, whose source is not part of the tree).                   *)
(*                                                                         *)
(* Strings are sequences of tokens; a token is an opaque piece of text.    *)
(* Time is abstract: a context deadline may expire at any moment while     *)
(* the executor that owns the context is active.                           *)
(***************************************************************************)
EXTENDS Integers, Sequences, FiniteSets, TLC

(***************************************************************************)
(* Bounds of the model.                                                    *)
(***************************************************************************)
\* tokens an OS pipe holds before its writer blocks
PipeCap == 2
\* longest stdinput list of a request
MaxLines == 2

\* requests in flight at the same time
Subs == {1, 2}

(***************************************************************************)
(* Text helpers.                                                           *)
(***************************************************************************)
Empty == <<>>

\* s occurs in t as a contiguous piece
Contains(t, s) ==
    \E i \in 0..(Len(t) - Len(s)) : SubSeq(t, i + 1, i + Len(s)) = s

\* every token of s is a token of t
Tokens(t) == {t[i] : i \in 1..Len(t)}

Line(i) == CASE i = 1 -> "a" [] i = 2 -> "b" [] i = 3 -> "c" [] OTHER -> "d"

StdinChoices == {[i \in 1..n |-> Line(i)] : n \in 0..MaxLines}

(***************************************************************************)
(* Requests (comphubTypes.CompilationReq) and their validation.            *)
(***************************************************************************)
\* the oneof list of the Language field
OneOfLanguages == {"js", "ts", "py", "go", "java", "rs", "kt", "cpp", "c", "cs"}

NoCode == "none"

\* the validation accepts any language name
ValidRequest_AnyLanguage(r) == r.code /= NoCode

\* validate:"required" on Code, validate:"required,oneof=..." on Language
ValidRequest(r) == r.code /= NoCode /\ r.lang \in OneOfLanguages

\* the cases of the switch in CompileProgram
HasExecutor(lang) == lang \in {"js", "c", "cpp", "go", "java"}

\* executors that run a compiler process before the program
HasCompileStage(lang) == lang \in {"c", "cpp", "java"}

\* `go run` starts the built binary as a child of the go tool; killing the go
\* tool (the process exec.CommandContext knows) leaves that child running
RunsThroughChild(lang) == lang = "go"

(***************************************************************************)
(* Submitted programs: what the source text does once it is built and run. *)
(* A script is a sequence of <<op, argument>> steps.                       *)
(***************************************************************************)
Programs == {"hello", "bye", "cat", "outbig", "errbig", "warn", "fail",
             "loop", "selfkill", "daemon", "spawn", "forkloop", "deaf",
             "badsyntax"}

Diag == "diagnostic"

Compiles(code) == code /= "badsyntax"

\* the text of a path under execution_zone: the source file of each submission
\* has its own UUID in it
FileName(p) ==
    CASE p[2] = 1 -> "execution_zone/uuid-1"
      [] p[2] = 2 -> "execution_zone/uuid-2"
      [] OTHER    -> "execution_zone/exec_binary"

\* what the compiler writes for a source text, on its stdout and its stderr
\* together (CombinedOutput gives both streams one buffer)
\* the diagnostics name the source file they are about
CompilerOutput(file, code) ==
    IF Compiles(code) THEN Empty ELSE <<"note", file, Diag>>

Repeat(step, n) == [i \in 1..n |-> step]

Script(code) ==
    CASE code = "hello"    -> << <<"out", "hi">>, <<"exit", "0">> >>
      [] code = "bye"      -> << <<"out", "bye">>, <<"exit", "0">> >>
      [] code = "cat"      -> << <<"cat", "">>, <<"exit", "0">> >>
      [] code = "outbig"   -> Repeat(<<"out", "x">>, PipeCap + 1) \o << <<"exit", "0">> >>
      [] code = "errbig"   -> Repeat(<<"err", "e">>, PipeCap + 1) \o << <<"exit", "0">> >>
      [] code = "warn"     -> << <<"err", "warning">>, <<"out", "hi">>, <<"exit", "0">> >>
      [] code = "fail"     -> << <<"err", "boom">>, <<"exit", "1">> >>
      [] code = "loop"     -> << <<"loop", "">> >>
      [] code = "selfkill" -> << <<"kill9", "">> >>
      [] code = "daemon"   -> << <<"fork", "detached">>, <<"out", "hi">>, <<"exit", "0">> >>
      [] code = "spawn"    -> << <<"fork", "holding">>, <<"out", "hi">>, <<"exit", "0">> >>
      [] code = "forkloop" -> << <<"fork", "detached">>, <<"loop", "">> >>
      [] code = "deaf"     -> << <<"closein", "">>, <<"out", "hi">>, <<"exit", "0">> >>
      [] code = "noclass"  -> << <<"err", "Could not find or load main class">>, <<"exit", "1">> >>
      [] OTHER             -> << <<"err", Diag>>, <<"exit", "1">> >>

ExitStatus(c) == IF c = "0" THEN "exit status 0" ELSE "exit status 1"

(***************************************************************************)
(* State.                                                                  *)
(***************************************************************************)
VARIABLES
    req,          \* the request each submission carries
    pc,           \* where the handler goroutine of each submission stands
    zone,         \* whether the directory execution_zone exists
    files,        \* the files inside execution_zone: path -> the code they hold
    filename,     \* createFileRes.Filename of each submission
    ctx,          \* the executor's context: none, live, deadline, canceled
    comp,         \* the compile stage: none, running, killed, ok, failed
    top,          \* the run-stage process cmd.Process: none, running, exited, reaped
    status,       \* the wait status top ended with
    runner,       \* whether the submitted program is still executing
    prog,         \* the code the run-stage process executes
    ip,           \* the program's position in its script
    kids,         \* a descendant the program forked: none, holding, detached
    inbuf,        \* the stdin pipe
    outbuf,       \* the stdout pipe
    errbuf,       \* the stderr pipe
    inClosed,     \* the write end of the stdin pipe was closed (input.Close)
    wr,           \* the stdin-writer goroutine: its state and the lines written
    stdoutBytes,  \* what io.ReadAll(output) has collected
    stderrBytes,  \* what io.ReadAll(stderr) has collected
    watch,        \* the goroutine of os/exec that kills top when ctx is done
    waited,       \* cmd.Wait has collected top's exit
    ctxKilled,    \* history: what ended the context when it killed a process
    execRes,      \* what the executor returned: ExecutionRes and the error
    resp,         \* the responses written to the http.ResponseWriter
    spawned,      \* history: the stages whose process was started, in order
    wroteOut,     \* history: what the run-stage program wrote to its stdout
    wroteErr,     \* history: what the run-stage program wrote to its stderr
    elapsed,      \* the time since context.WithTimeout, in units of 5 seconds
    startedAt     \* history: the value of elapsed when the run stage started

fsVars   == <<zone, files>>
procVars == <<top, status, runner, prog, ip, kids, wroteOut, wroteErr>>
pipeVars == <<inbuf, outbuf, errbuf, inClosed>>
readVars == <<stdoutBytes, stderrBytes>>
clockVars == <<elapsed, startedAt>>
vars == <<req, pc, zone, files, filename, ctx, comp, top, status, runner, prog,
          ip, kids, inbuf, outbuf, errbuf, inClosed, wr, stdoutBytes,
          stderrBytes, watch, waited, ctxKilled, execRes, resp, spawned, wroteOut,
          wroteErr, elapsed, startedAt>>

(***************************************************************************)
(* The filesystem under execution_zone.                                    *)
(***************************************************************************)
NoFile == <<"none", 0>>

\* uuid.NewString() + "." + language: a name no other submission gets
SourcePath(s) == <<"source", s>>

Exists(p) == p \in DOMAIN files

WriteFile(fs, p, code) ==
    [q \in (DOMAIN fs) \cup {p} |-> IF q = p THEN code ELSE fs[q]]

Remove(fs, p) == [q \in (DOMAIN fs) \ {p} |-> fs[q]]

\* a release that puts an empty file where it found none
DeleteFile_Toggle(fs, p) ==
    IF p \in DOMAIN fs THEN Remove(fs, p) ELSE WriteFile(fs, p, NoCode)

\* utils.DeleteFile: os.Stat, then os.Remove unless the file does not exist
DeleteFile(fs, p) == IF p \in DOMAIN fs THEN Remove(fs, p) ELSE fs

(***************************************************************************)
(* Requests the model draws from.                                          *)
(***************************************************************************)
Languages == OneOfLanguages \cup {"xx"}

Requests ==
    [parse : {TRUE}, code : Programs \cup {NoCode}, lang : Languages,
     stdin : StdinChoices]
    \cup {[parse |-> FALSE, code |-> NoCode, lang |-> "xx", stdin |-> Empty]}

NoRes == [Success |-> FALSE, Error |-> Empty, Output |-> Empty,
          err |-> "none", at |-> "none"]

InitState(active) ==
    /\ pc = [s \in Subs |-> IF s \in active THEN "recv" ELSE "absent"]
    /\ files = [p \in {} |-> NoCode]
    /\ filename = [s \in Subs |-> NoFile]
    /\ ctx = [s \in Subs |-> "none"]
    /\ comp = [s \in Subs |-> "none"]
    /\ top = [s \in Subs |-> "none"]
    /\ status = [s \in Subs |-> "none"]
    /\ runner = [s \in Subs |-> FALSE]
    /\ prog = [s \in Subs |-> NoCode]
    /\ ip = [s \in Subs |-> 1]
    /\ kids = [s \in Subs |-> "none"]
    /\ inbuf = [s \in Subs |-> Empty]
    /\ outbuf = [s \in Subs |-> Empty]
    /\ errbuf = [s \in Subs |-> Empty]
    /\ inClosed = [s \in Subs |-> FALSE]
    /\ wr = [s \in Subs |-> [st |-> "none", i |-> 0]]
    /\ stdoutBytes = [s \in Subs |-> Empty]
    /\ stderrBytes = [s \in Subs |-> Empty]
    /\ watch = [s \in Subs |-> "none"]
    /\ waited = [s \in Subs |-> FALSE]
    /\ ctxKilled = [s \in Subs |-> "none"]
    /\ execRes = [s \in Subs |-> NoRes]
    /\ resp = [s \in Subs |-> Empty]
    /\ spawned = [s \in Subs |-> Empty]
    /\ wroteOut = [s \in Subs |-> Empty]
    /\ wroteErr = [s \in Subs |-> Empty]
    /\ elapsed = [s \in Subs |-> 0]
    /\ startedAt = [s \in Subs |-> 0]

Idle == [parse |-> FALSE, code |-> NoCode, lang |-> "xx", stdin |-> Empty]

\* one request arrives; it may be any request
Init ==
    /\ req \in {[s \in Subs |-> IF s = 1 THEN r ELSE Idle] : r \in Requests}
    /\ zone \in BOOLEAN
    /\ InitState({1})

(***************************************************************************)
(* CompileProgram: decoding and validation.                                *)
(***************************************************************************)
\* a response that repeats the error text in the output field
Response_Both(st, ok, out, er) ==
    [status |-> st, Success |-> ok, Output |-> IF ok THEN out ELSE er,
     Error |-> er]

\* comphubTypes.CompilationRes, with the status code it is sent under
Response(st, ok, out, er) ==
    [status |-> st, Success |-> ok, Output |-> out, Error |-> er]

\* writeJSONResponse
writeJSONResponse(s, r) == resp' = [resp EXCEPT ![s] = Append(@, r)]

Goto(s, l) == pc' = [pc EXCEPT ![s] = l]

\* json Decode, then validate.Struct; a bad request is answered at once
ParseRequest(s) ==
    /\ pc[s] = "recv"
    /\ IF ~req[s].parse
         THEN /\ writeJSONResponse(s, Response(400, FALSE, Empty,
                                      <<"Parsing Error: ", "json">>))
              /\ Goto(s, "done")
         ELSE IF ~ValidRequest(req[s])
         THEN /\ writeJSONResponse(s, Response(400, FALSE, Empty,
                                      <<"Validation Error: ", "field">>))
              /\ Goto(s, "done")
         ELSE /\ Goto(s, "stat")
              /\ UNCHANGED resp
    /\ UNCHANGED <<req, fsVars, filename, ctx, comp, procVars, pipeVars, wr,
                   readVars, watch, waited, execRes, spawned,
                   ctxKilled, clockVars>>

(***************************************************************************)
(* utils.CreateFile.                                                       *)
(***************************************************************************)
\* the failure of CreateFile is answered as a success
CreateFileFailed_AsSuccess(s, why) ==
    /\ writeJSONResponse(s, Response(200, TRUE, Empty, Empty))
    /\ Goto(s, "done")

\* if !createFileRes.Success: respond 400 and return
CreateFileFailed(s, why) ==
    /\ writeJSONResponse(s, Response(400, FALSE, Empty,
                             <<"Error in creating file: ", why>>))
    /\ Goto(s, "done")

\* os.Stat(executionZone): the directory is made only when Stat did not find it
StatZone(s) ==
    /\ pc[s] = "stat"
    /\ Goto(s, IF zone THEN "write" ELSE "mkdir")
    /\ UNCHANGED <<req, fsVars, filename, ctx, comp, procVars, pipeVars, wr,
                   readVars, watch, waited, execRes, resp, spawned,
                   ctxKilled, clockVars>>

\* os.Mkdir(executionZone): fails when the directory exists by now, or when
\* the filesystem refuses
MkdirZone(s) ==
    /\ pc[s] = "mkdir"
    /\ \E fsok \in BOOLEAN :
         IF fsok /\ ~zone
           THEN /\ zone' = TRUE
                /\ Goto(s, "write")
                /\ UNCHANGED resp
           ELSE /\ CreateFileFailed(s, "Directory could not be created")
                /\ UNCHANGED zone
    /\ UNCHANGED <<req, files, filename, ctx, comp, procVars, pipeVars, wr,
                   readVars, watch, waited, execRes, spawned,
                   ctxKilled, clockVars>>

\* os.WriteFile(filePath, code)
WriteSource(s) ==
    /\ pc[s] = "write"
    /\ \E fsok \in BOOLEAN :
         IF fsok /\ zone
           THEN /\ files' = WriteFile(files, SourcePath(s), req[s].code)
                /\ filename' = [filename EXCEPT ![s] = SourcePath(s)]
                /\ Goto(s, "switch")
                /\ UNCHANGED resp
           ELSE /\ CreateFileFailed(s, "File could not be created")
                /\ UNCHANGED <<files, filename>>
    /\ UNCHANGED <<req, zone, ctx, comp, procVars, pipeVars, wr,
                   readVars, watch, waited, execRes, spawned,
                   ctxKilled, clockVars>>

(***************************************************************************)
(* The executors.  ExecuteJS, ExecuteGo, ExecuteCPP and ExecuteJava share  *)
(* one shape: context.WithTimeout, an optional compiler process run with   *)
(* CombinedOutput, then the three pipes, cmd.Start, the stdin goroutine,   *)
(* io.ReadAll(output), io.ReadAll(stderr), cmd.Wait and the verdict.       *)
(***************************************************************************)
Lang(s) == req[s].lang

\* ExecuteCPP: executable := "execution_zone/exec_binary", one name for all
CPPExecutable(s) == <<"exec_binary", 0>>

\* the class a Java source text declares; javac names the class file after it
ClassName(code) == IF code = "bye" THEN "Bye.class" ELSE "Main.class"

\* ExecuteJava: javac writes the class file beside the source file, under the
\* name of the class the source declares
JavaClassFile(s) == <<ClassName(req[s].code), 0>>

\* ExecuteJava: className is the base name of the source file, a UUID; the
\* java launcher looks for the class file of that name
JavaMainClass(s) == <<"class", s>>

\* ExecuteC: the artifact of the compile stage lives in the submission's workspace
CExecutable(s) == <<"c_binary", s>>

Artifact(s) ==
    CASE Lang(s) = "cpp"  -> CPPExecutable(s)
      [] Lang(s) = "java" -> JavaClassFile(s)
      [] OTHER            -> CExecutable(s)

Failure(at, text, err) ==
    [Success |-> FALSE, Error |-> text, Output |-> Empty, err |-> err, at |-> at]

\* the error text leaves out what the compiler wrote
CPPCompileError_NoOutput(err, out) == <<"Compilation Failed :", err, "\n">>

\* ExecuteCPP: fmt.Sprintf("Compilation Failed :%v\n%s", err, string(compOut))
CPPCompileError(err, out) == <<"Compilation Failed :", err, "\n">> \o out

\* ExecuteJava: fmt.Sprintf("Compilation failed: %s", string(compileOutput))
JavaCompileError(err, out) == <<"Compilation failed: ">> \o out

\* ExecuteC: a compile failure carries the stage's combined output
CCompileError(err, out) == <<"Compilation failed: ">> \o out

CompileError(lang, err, out) ==
    CASE lang = "cpp"  -> CPPCompileError(err, out)
      [] lang = "java" -> JavaCompileError(err, out)
      [] OTHER         -> CCompileError(err, out)

\* the check of the compiler's error is skipped
CompileFailed_Ignored(err) == FALSE

\* if err != nil after CombinedOutput
CompileFailed(err) == err /= "nil"

\* fmt.Sprintf("Command execution failed: %v", err)
WaitError(err) == <<"Command execution failed: ", err>>

\* the verdict reports both streams together as the error text
RunVerdict_Merged(err, out, er) ==
    IF err /= "nil"
      THEN Failure("wait", WaitError(err), err)
      ELSE IF Len(er) > 0
      THEN Failure("stderr", out \o er, "stderr")
      ELSE [Success |-> TRUE, Error |-> Empty, Output |-> out,
            err |-> "nil", at |-> "ok"]

\* the verdict returns a nil error beside the failure that stderr caused
RunVerdict_StderrNilError(err, out, er) ==
    IF err /= "nil"
      THEN Failure("wait", WaitError(err), err)
      ELSE IF Len(er) > 0
      THEN Failure("stderr", er, "nil")
      ELSE [Success |-> TRUE, Error |-> Empty, Output |-> out,
            err |-> "nil", at |-> "ok"]

\* the verdict after cmd.Wait: the Wait error first, then len(stderrBytes) > 0
RunVerdict(err, out, er) ==
    IF err /= "nil"
      THEN Failure("wait", WaitError(err), err)
      ELSE IF Len(er) > 0
      THEN Failure("stderr", er, "stderr")
      ELSE [Success |-> TRUE, Error |-> Empty, Output |-> out,
            err |-> "nil", at |-> "ok"]

\* ctx.Err()
CtxErr(c) == IF c = "deadline" THEN "context deadline exceeded" ELSE "context canceled"

\* The context of submission s is done (its deadline expired, or cancel() was
\* called): the first time, os/exec kills the process it started, and only
\* that process.  A kill that reaches a process not yet waited for makes
\* cmd.Wait report ctx.Err() in place of a nil error.
CtxEnd(s, why) ==
    LET first == ctx[s] = "live"
        kill  == first /\ top[s] = "running"
    IN  /\ ctx' = IF first THEN [ctx EXCEPT ![s] = why] ELSE ctx
        /\ comp' = IF first /\ comp[s] = "running"
                     THEN [comp EXCEPT ![s] = "killed"] ELSE comp
        /\ top' = IF kill THEN [top EXCEPT ![s] = "exited"] ELSE top
        /\ status' = IF kill THEN [status EXCEPT ![s] = "signal: killed"] ELSE status
        /\ runner' = IF kill /\ ~RunsThroughChild(Lang(s))
                       THEN [runner EXCEPT ![s] = FALSE] ELSE runner
        /\ watch' = IF first /\ watch[s] = "armed"
                      THEN [watch EXCEPT ![s] = "interrupted"] ELSE watch
        /\ ctxKilled' = IF kill \/ (first /\ comp[s] = "running")
                          THEN [ctxKilled EXCEPT ![s] = why] ELSE ctxKilled

\* the executor returns res; its deferred cancel() runs
Return(s, res) ==
    /\ execRes' = [execRes EXCEPT ![s] = res]
    /\ Goto(s, "returned")

\* the switch on req.Language; an executor starts with context.WithTimeout
Switch(s) ==
    /\ pc[s] = "switch"
    /\ IF HasExecutor(Lang(s))
         THEN /\ ctx' = [ctx EXCEPT ![s] = "live"]
              /\ Goto(s, IF HasCompileStage(Lang(s)) THEN "compile" ELSE "start")
         ELSE /\ Goto(s, "returned")
              /\ UNCHANGED ctx
    /\ UNCHANGED <<req, fsVars, filename, comp, procVars, pipeVars, wr,
                   readVars, watch, waited, execRes, resp, spawned,
                   ctxKilled, clockVars>>

\* the timer of context.WithTimeout fires
Deadline(s) ==
    /\ ctx[s] = "live"
    /\ CtxEnd(s, "deadline")
    /\ UNCHANGED <<req, pc, fsVars, filename, prog, ip, kids, wroteOut, wroteErr,
                   pipeVars, wr, readVars, waited, execRes, resp, spawned,
                   clockVars>>

\* compCmd.CombinedOutput(), first half: the compiler process is started
CompileStart(s) ==
    /\ pc[s] = "compile"
    /\ \E found \in BOOLEAN :
         IF found /\ ctx[s] = "live"
           THEN /\ comp' = [comp EXCEPT ![s] = "running"]
                /\ spawned' = [spawned EXCEPT ![s] = Append(@, "compile")]
                /\ Goto(s, "compiling")
                /\ UNCHANGED <<ctx, execRes>>
           ELSE LET err == IF ctx[s] = "live" THEN "executable file not found"
                           ELSE CtxErr(ctx[s])
                IN  /\ Return(s, Failure("compile",
                                   CompileError(Lang(s), err, Empty), err))
                    /\ ctx' = [ctx EXCEPT ![s] = IF @ = "live" THEN "canceled" ELSE @]
                    /\ comp' = [comp EXCEPT ![s] = "failed"]
                    /\ UNCHANGED spawned
    /\ UNCHANGED <<req, fsVars, filename, procVars, pipeVars, wr,
                   readVars, watch, waited, resp,
                   ctxKilled, clockVars>>

\* the beginnings of a text
Prefixes(t) == {SubSeq(t, 1, n) : n \in 0..Len(t)}

\* compCmd.CombinedOutput(), second half: the compiler ends, by itself (it
\* writes the artifact, or its diagnostics) or killed at the deadline (the
\* buffer then holds what the compiler had written so far)
CompileFinish(s) ==
    /\ pc[s] = "compiling"
    /\ \E out \in IF comp[s] = "running"
                    THEN {CompilerOutput(FileName(filename[s]),
                                        files[filename[s]])}
                    ELSE Prefixes(CompilerOutput(FileName(filename[s]),
                                        files[filename[s]])) :
       LET code == files[filename[s]]
           err  == IF comp[s] = "killed" THEN "signal: killed"
                   ELSE IF Compiles(code) THEN "nil" ELSE "exit status 1"
       IN  /\ files' = IF err = "nil" THEN WriteFile(files, Artifact(s), code)
                       ELSE files
           /\ comp' = [comp EXCEPT ![s] = IF err = "nil" THEN "ok" ELSE "failed"]
           /\ IF CompileFailed(err)
                THEN /\ Return(s, Failure("compile",
                                    CompileError(Lang(s), err, out), err))
                     /\ ctx' = [ctx EXCEPT ![s] = IF @ = "live" THEN "canceled" ELSE @]
                ELSE /\ Goto(s, "start")
                     /\ UNCHANGED <<ctx, execRes>>
    /\ UNCHANGED <<req, zone, filename, procVars, pipeVars, wr,
                   readVars, watch, waited, resp, spawned,
                   ctxKilled, clockVars>>

\* what the run-stage command executes
LoadProgram(s) ==
    CASE Lang(s) \in {"cpp", "c"} -> files[Artifact(s)]
      [] Lang(s) = "java" -> IF Exists(JavaMainClass(s))
                               THEN files[JavaMainClass(s)]
                             ELSE "noclass"
      [] OTHER -> files[filename[s]]

\* "./execution_zone/exec_binary" must exist to be started; node, go and java
\* are found on the search path
CanExec(s) == Lang(s) \in {"cpp", "c"} => Exists(Artifact(s))

PipeSetup == {"ok", "stdin pipe", "stdout pipe", "stderr pipe", "start command"}

\* fmt.Sprintf("Failed to create the stdin pipe %v", err) and its siblings
SetupError(what, err) ==
    CASE what = "stdin pipe"  -> <<"Failed to create the stdin pipe ", err>>
      [] what = "stdout pipe" -> <<"Failed to create the stdout pipe ", err>>
      [] what = "stderr pipe" -> <<"Failed to create the stderr pipe ", err>>
      [] OTHER                -> <<"Failed to start command: ", err>>

\* cmd.StdinPipe, cmd.StdoutPipe, cmd.StderrPipe, cmd.Start, and the go
\* statement that starts the stdin writer
RunStart(s) ==
    /\ pc[s] = "start"
    /\ \E o \in PipeSetup :
         IF o = "ok" /\ ctx[s] = "live" /\ CanExec(s)
           THEN /\ top' = [top EXCEPT ![s] = "running"]
                /\ runner' = [runner EXCEPT ![s] = TRUE]
                /\ prog' = [prog EXCEPT ![s] = LoadProgram(s)]
                /\ watch' = [watch EXCEPT ![s] = "armed"]
                /\ wr' = [wr EXCEPT ![s] = [st |-> "run", i |-> 0]]
                /\ spawned' = [spawned EXCEPT ![s] = Append(@, "run")]
                /\ Goto(s, "readStdout")
                /\ UNCHANGED <<ctx, execRes>>
           ELSE LET what == IF o = "ok" THEN "start command" ELSE o
                    err  == IF o = "ok" /\ ctx[s] /= "live" THEN CtxErr(ctx[s])
                            ELSE "os error"
                IN  /\ Return(s, Failure(what, SetupError(what, err), err))
                    /\ ctx' = [ctx EXCEPT ![s] = IF @ = "live" THEN "canceled" ELSE @]
                    /\ UNCHANGED <<top, runner, prog, watch, wr, spawned>>
    /\ startedAt' = [startedAt EXCEPT ![s] = elapsed[s]]
    /\ UNCHANGED <<req, fsVars, filename, comp, status, ip, kids, wroteOut,
                   wroteErr, pipeVars, readVars, waited, resp,
                   ctxKilled, elapsed>>

(***************************************************************************)
(* The run-stage process and its descendants.                              *)
(***************************************************************************)
Op(s) == Script(prog[s])[ip[s]]

\* the program has closed its standard input
ClosedInput(s) == prog[s] = "deaf" /\ ip[s] > 1

\* somebody still holds the read end of the stdin pipe
HasReader(s) == (runner[s] /\ ~ClosedInput(s)) \/ kids[s] = "holding"

\* somebody still holds the write ends of the stdout and stderr pipes
HasWriter(s) == runner[s] \/ kids[s] = "holding"

CanStep(s) ==
    /\ runner[s]
    /\ CASE Op(s)[1] = "out"  -> Len(outbuf[s]) < PipeCap
         [] Op(s)[1] = "err"  -> Len(errbuf[s]) < PipeCap
         [] Op(s)[1] = "cat"  -> \/ inbuf[s] /= Empty /\ Len(outbuf[s]) < PipeCap
                                 \/ inbuf[s] = Empty /\ inClosed[s]
         [] Op(s)[1] = "loop" -> FALSE
         [] OTHER             -> TRUE

\* the program ends: the process the executor started ends with it, unless
\* that process was killed before (a child of `go run` outlives the go tool)
Ends(s, st) ==
    /\ runner' = [runner EXCEPT ![s] = FALSE]
    /\ top' = IF top[s] = "running" THEN [top EXCEPT ![s] = "exited"] ELSE top
    /\ status' = IF top[s] = "running" THEN [status EXCEPT ![s] = st] ELSE status

\* one step of the submitted program
ProgStep(s) ==
    /\ CanStep(s)
    /\ LET op == Op(s)[1]
           arg == Op(s)[2]
           copy == op = "cat" /\ inbuf[s] /= Empty
       IN  /\ outbuf' = IF op = "out" THEN [outbuf EXCEPT ![s] = Append(@, arg)]
                        ELSE IF copy THEN [outbuf EXCEPT ![s] = Append(@, Head(inbuf[s]))]
                        ELSE outbuf
           /\ wroteOut' = IF op = "out" THEN [wroteOut EXCEPT ![s] = Append(@, arg)]
                          ELSE IF copy THEN [wroteOut EXCEPT ![s] = Append(@, Head(inbuf[s]))]
                          ELSE wroteOut
           /\ inbuf' = IF copy THEN [inbuf EXCEPT ![s] = Tail(@)] ELSE inbuf
           /\ errbuf' = IF op = "err" THEN [errbuf EXCEPT ![s] = Append(@, arg)]
                        ELSE errbuf
           /\ wroteErr' = IF op = "err" THEN [wroteErr EXCEPT ![s] = Append(@, arg)]
                          ELSE wroteErr
           /\ kids' = IF op = "fork" THEN [kids EXCEPT ![s] = arg] ELSE kids
           /\ ip' = IF op \in {"exit", "kill9"} \/ copy THEN ip
                    ELSE [ip EXCEPT ![s] = @ + 1]
           /\ IF op = "exit" THEN Ends(s, ExitStatus(arg))
              ELSE IF op = "kill9"
              THEN Ends(s, IF RunsThroughChild(Lang(s)) THEN "exit status 1"
                           ELSE "signal: killed")
              ELSE UNCHANGED <<runner, top, status>>
    /\ UNCHANGED <<req, pc, fsVars, filename, ctx, comp, prog, inClosed, wr,
                   readVars, watch, waited, execRes, resp, spawned,
                   ctxKilled, clockVars>>

(***************************************************************************)
(* The stdin-writer goroutine: go func() { defer input.Close(); ... }()    *)
(***************************************************************************)
\* the line is written without its newline
WriterWrite_NoNewline(s) ==
    /\ wr[s].st = "run"
    /\ wr[s].i < Len(req[s].stdin)
    /\ HasReader(s) /\ ~inClosed[s]
    /\ Len(inbuf[s]) + 2 <= PipeCap
    /\ inbuf' = [inbuf EXCEPT ![s] = @ \o <<req[s].stdin[wr[s].i + 1]>>]
    /\ wr' = [wr EXCEPT ![s].i = @ + 1]
    /\ UNCHANGED <<req, pc, fsVars, filename, ctx, comp, procVars, outbuf, errbuf,
                   inClosed, readVars, watch, waited, execRes, resp, spawned,
                   ctxKilled, clockVars>>

\* input.Write([]byte(stdinput + "\n")) succeeds once the pipe has room
WriterWrite(s) ==
    /\ wr[s].st = "run"
    /\ wr[s].i < Len(req[s].stdin)
    /\ HasReader(s) /\ ~inClosed[s]
    /\ Len(inbuf[s]) + 2 <= PipeCap
    /\ inbuf' = [inbuf EXCEPT ![s] = @ \o <<req[s].stdin[wr[s].i + 1], "\n">>]
    /\ wr' = [wr EXCEPT ![s].i = @ + 1]
    /\ UNCHANGED <<req, pc, fsVars, filename, ctx, comp, procVars, outbuf, errbuf,
                   inClosed, readVars, watch, waited, execRes, resp, spawned,
                   ctxKilled, clockVars>>

\* the failed Write ends the goroutine, but cancel() is not called
WriterBroken_NoCancel(s) ==
    /\ wr[s].st = "run"
    /\ wr[s].i < Len(req[s].stdin)
    /\ ~HasReader(s) \/ inClosed[s]
    /\ inClosed' = [inClosed EXCEPT ![s] = TRUE]
    /\ wr' = [wr EXCEPT ![s].st = "done"]
    /\ UNCHANGED <<req, pc, fsVars, filename, ctx, comp, procVars, inbuf, outbuf,
                   errbuf, readVars, watch, waited, execRes, resp, spawned,
                   ctxKilled, clockVars>>

\* input.Write fails (nobody holds the read end, or cmd.Wait has closed the
\* pipe): cancel(), return, Close
WriterBroken(s) ==
    /\ wr[s].st = "run"
    /\ wr[s].i < Len(req[s].stdin)
    /\ ~HasReader(s) \/ inClosed[s]
    /\ CtxEnd(s, "canceled")
    /\ inClosed' = [inClosed EXCEPT ![s] = TRUE]
    /\ wr' = [wr EXCEPT ![s].st = "done"]
    /\ UNCHANGED <<req, pc, fsVars, filename, prog, ip, kids, wroteOut, wroteErr,
                   inbuf, outbuf, errbuf, readVars, waited, execRes, resp, spawned,
                   clockVars>>

\* the loop is over: the deferred input.Close()
WriterClose(s) ==
    /\ wr[s].st = "run"
    /\ wr[s].i = Len(req[s].stdin)
    /\ inClosed' = [inClosed EXCEPT ![s] = TRUE]
    /\ wr' = [wr EXCEPT ![s].st = "done"]
    /\ UNCHANGED <<req, pc, fsVars, filename, ctx, comp, procVars, inbuf, outbuf,
                   errbuf, readVars, watch, waited, execRes, resp, spawned,
                   ctxKilled, clockVars>>

(***************************************************************************)
(* The executor's own goroutine after cmd.Start.                           *)
(***************************************************************************)
\* io.ReadAll(output): one Read that returns data
ReadStdout(s) ==
    /\ pc[s] = "readStdout"
    /\ outbuf[s] /= Empty
    /\ stdoutBytes' = [stdoutBytes EXCEPT ![s] = @ \o outbuf[s]]
    /\ outbuf' = [outbuf EXCEPT ![s] = Empty]
    /\ UNCHANGED <<req, pc, fsVars, filename, ctx, comp, procVars, inbuf, errbuf,
                   inClosed, wr, stderrBytes, watch, waited, execRes, resp, spawned,
                   ctxKilled, clockVars>>

\* io.ReadAll(output) returns: the pipe is empty and no write end is open
StdoutEOF(s) ==
    /\ pc[s] = "readStdout"
    /\ outbuf[s] = Empty
    /\ ~HasWriter(s)
    /\ Goto(s, "readStderr")
    /\ UNCHANGED <<req, fsVars, filename, ctx, comp, procVars, pipeVars, wr,
                   readVars, watch, waited, execRes, resp, spawned,
                   ctxKilled, clockVars>>

\* io.ReadAll(stderr): one Read that returns data
ReadStderr(s) ==
    /\ pc[s] = "readStderr"
    /\ errbuf[s] /= Empty
    /\ stderrBytes' = [stderrBytes EXCEPT ![s] = @ \o errbuf[s]]
    /\ errbuf' = [errbuf EXCEPT ![s] = Empty]
    /\ UNCHANGED <<req, pc, fsVars, filename, ctx, comp, procVars, inbuf, outbuf,
                   inClosed, wr, stdoutBytes, watch, waited, execRes, resp, spawned,
                   ctxKilled, clockVars>>

\* io.ReadAll(stderr) returns
StderrEOF(s) ==
    /\ pc[s] = "readStderr"
    /\ errbuf[s] = Empty
    /\ ~HasWriter(s)
    /\ Goto(s, "wait")
    /\ UNCHANGED <<req, fsVars, filename, ctx, comp, procVars, pipeVars, wr,
                   readVars, watch, waited, execRes, resp, spawned,
                   ctxKilled, clockVars>>

\* fmt.Sprintf("Failed to read stdout: %v", err)
ReadError(at, err) ==
    IF at = "readStdout" THEN <<"Failed to read stdout: ", err>>
    ELSE <<"Failed to read the stderr : ", err>>

\* a Read fails: the executor returns without cmd.Wait; its deferred cancel()
\* ends the context
ReadFail(s) ==
    /\ pc[s] \in {"readStdout", "readStderr"}
    /\ Return(s, Failure(pc[s], ReadError(pc[s], "read error"), "read error"))
    /\ CtxEnd(s, "canceled")
    /\ UNCHANGED <<req, fsVars, filename, prog, ip, kids, wroteOut, wroteErr,
                   pipeVars, wr, readVars, waited, resp, spawned, clockVars>>

\* what cmd.Wait returns: the exit status unless it is 0, else the error of
\* the watching goroutine (os/exec: when the command exits with a success
\* status after the kill of a done context was delivered without error, Wait
\* returns the context's error)
WaitResult(st, w, c) ==
    IF st /= "exit status 0" THEN st
    ELSE IF w = "interrupted" THEN CtxErr(c)
    ELSE "nil"

\* cmd.Wait() and the verdict; Wait closes the executor's end of the stdin
\* pipe once it has seen the exit; the deferred cancel() runs on return
Wait(s) ==
    /\ pc[s] = "wait"
    /\ top[s] = "exited"
    /\ top' = [top EXCEPT ![s] = "reaped"]
    /\ inClosed' = [inClosed EXCEPT ![s] = TRUE]
    /\ waited' = [waited EXCEPT ![s] = TRUE]
    /\ watch' = [watch EXCEPT ![s] = IF @ = "armed" THEN "stopped" ELSE @]
    /\ ctx' = [ctx EXCEPT ![s] = IF @ = "live" THEN "canceled" ELSE @]
    /\ Return(s, RunVerdict(WaitResult(status[s], watch[s], ctx[s]),
                            stdoutBytes[s], stderrBytes[s]))
    /\ UNCHANGED <<req, fsVars, filename, comp, status, runner, prog, ip, kids,
                   wroteOut, wroteErr, inbuf, outbuf, errbuf, wr, readVars, resp,
                   spawned, ctxKilled, clockVars>>

(***************************************************************************)
(* CompileProgram after the switch.                                        *)
(***************************************************************************)
\* the error text of the executor is never taken
HandlerStderr_Dropped(lang, res) == Empty

\* the variable stderr of CompileProgram: compileRes.Error when err != nil
HandlerStderr(lang, res) ==
    IF res.err \notin {"nil", "none"} THEN res.Error ELSE Empty

\* every case takes stdout from compileRes.Error
HandlerStdout_FromError(lang, res) ==
    IF res.err /= "nil" THEN Empty ELSE res.Error

\* the variable stdout of CompileProgram: compileRes.Output when err == nil,
\* but compileRes.Error in the case "java"
HandlerStdout(lang, res) ==
    IF res.err /= "nil" THEN Empty
    ELSE IF lang = "java" THEN res.Error
    ELSE res.Output

\* fmt.Sprintf("Execution error: ", stderr): no verb takes the argument
ExecutionError(stderr) ==
    <<"Execution error: ", "%!(EXTRA string=">> \o stderr \o <<")">>

\* if stderr != "" { respond 400; return }; DeleteFile; respond 200
Finish(s) ==
    /\ pc[s] = "returned"
    /\ LET stderr == HandlerStderr(Lang(s), execRes[s])
           stdout == HandlerStdout(Lang(s), execRes[s])
       IN  IF stderr /= Empty
             THEN /\ writeJSONResponse(s, Response(400, FALSE, Empty,
                                          ExecutionError(stderr)))
                  /\ UNCHANGED files
             ELSE /\ files' = DeleteFile(files, filename[s])
                  /\ writeJSONResponse(s, Response(200, TRUE, stdout, Empty))
    /\ Goto(s, "done")
    /\ UNCHANGED <<req, zone, filename, ctx, comp, procVars, pipeVars, wr,
                   readVars, watch, waited, execRes, spawned,
                   ctxKilled, clockVars>>

(***************************************************************************)
(* The system.                                                             *)
(***************************************************************************)
\* what the handler, its goroutines, the timer and the program do by themselves
Progress(s) ==
    \/ ParseRequest(s)
    \/ StatZone(s)
    \/ MkdirZone(s)
    \/ WriteSource(s)
    \/ Switch(s)
    \/ Deadline(s)
    \/ CompileStart(s)
    \/ CompileFinish(s)
    \/ RunStart(s)
    \/ ProgStep(s)
    \/ WriterWrite(s)
    \/ WriterBroken(s)
    \/ WriterClose(s)
    \/ ReadStdout(s)
    \/ StdoutEOF(s)
    \/ ReadStderr(s)
    \/ StderrEOF(s)
    \/ Wait(s)
    \/ Finish(s)

Step(s) == Progress(s) \/ ReadFail(s)

Next == \E s \in Subs : Step(s)

Spec == Init /\ [][Next]_vars

\* two requests are in flight together: compiled languages, small programs
PairRequests(stdin, codes) ==
    [parse : {TRUE}, code : codes, lang : {"cpp", "java"}, stdin : {stdin}]

\* the first requests after the service started: execution_zone is not there
InitPair ==
    /\ req \in {[s \in Subs |-> IF s = 1 THEN r1 ELSE r2] :
                  r1 \in PairRequests(<<"a">>, {"hello", "warn", "badsyntax"}),
                  r2 \in PairRequests(Empty, {"hello", "warn", "badsyntax",
                                               "selfkill"})}
    /\ zone = FALSE
    /\ InitState(Subs)

SpecPair == InitPair /\ [][Next]_vars

\* Goroutines that can run do run, a started program that can take a step
\* takes it, and the timer of a live context fires.  Nothing obliges a Read
\* of a pipe to fail.
Fairness == \A s \in Subs : WF_vars(Progress(s)) /\ WF_vars(Deadline(s))

FairSpec == Spec /\ Fairness

(***************************************************************************)
(* The same system with a clock: the timer of a context fires when the     *)
(* context's timeout has passed, and not before.                           *)
(***************************************************************************)
\* context.WithTimeout(context.Background(), 10*time.Second), in units of 5 s
ExecTimeout == 2

\* ExecuteJava: context.WithTimeout(context.Background(), 15*time.Second)
JavaTimeout == 3

Timeout(lang) == IF lang = "java" THEN JavaTimeout ELSE ExecTimeout

\* five seconds pass while the context of s is live
Tick(s) ==
    /\ ctx[s] = "live"
    /\ elapsed[s] < Timeout(Lang(s))
    /\ elapsed' = [elapsed EXCEPT ![s] = @ + 1]
    /\ UNCHANGED <<req, pc, fsVars, filename, ctx, comp, procVars, pipeVars, wr,
                   readVars, watch, waited, ctxKilled, execRes, resp, spawned,
                   startedAt>>

\* a step of the system; the deadline of a context expires on time
TimedStep(s) ==
    /\ Step(s)
    /\ ctx[s] = "live" /\ ctx'[s] = "deadline" => elapsed[s] = Timeout(Lang(s))

NextClock == \E s \in Subs : TimedStep(s) \/ Tick(s)

\* one request for an executor with or without a compile stage
InitClock ==
    /\ req \in {[s \in Subs |-> IF s = 1 THEN r ELSE Idle] :
                  r \in [parse : {TRUE}, code : {"hello", "cat", "loop", "badsyntax"},
                         lang : {"js", "cpp", "java"}, stdin : StdinChoices]}
    /\ zone \in BOOLEAN
    /\ InitState({1})

SpecClock == InitClock /\ [][NextClock]_vars

(***************************************************************************)
(* Properties.                                                             *)
(***************************************************************************)
Done(s) == pc[s] = "done"

\* the executor of s has returned to CompileProgram
Returned(s) == pc[s] \in {"returned", "done"}

\* the run stage of s is in progress inside the executor
InRunStage(s) == pc[s] \in {"readStdout", "readStderr", "wait"}

LastResp(s) == resp[s][Len(resp[s])]

\* the executor of s, if any, is one of the source tree (ExecuteC is not)
Sourced(s) == Lang(s) /= "c"

\* C1: once CompileProgram has returned, the source file CreateFile made for
\* the submission no longer exists, whatever the outcome was.
C1_SourceFileRemoved ==
    \A s \in Subs :
        Sourced(s) /\ Done(s) /\ filename[s] /= NoFile => ~Exists(filename[s])

\* the program waits to write into a full pipe that the executor is not reading
BlockedOnUnreadPipe(s) ==
    /\ runner[s]
    /\ \/ Op(s)[1] = "err" /\ Len(errbuf[s]) = PipeCap /\ pc[s] /= "readStderr"
       \/ Op(s)[1] = "out" /\ Len(outbuf[s]) = PipeCap /\ pc[s] /= "readStdout"

\* C2: during a run stage both streams are drained while the process runs: the
\* program is never blocked on a full pipe that nobody is reading.
C2_BothStreamsDrained ==
    \A s \in Subs : Sourced(s) /\ InRunStage(s) => ~BlockedOnUnreadPipe(s)

\* C3: when the deadline killed the process of the run stage, nothing of the
\* submission (the process, the program, a descendant) runs once the executor
\* has collected the exit and returned.
C3_TimeoutKillsProcessGroup ==
    \A s \in Subs :
        Sourced(s) /\ ctxKilled[s] = "deadline" /\ waited[s] /\ Returned(s) =>
            top[s] /= "running" /\ ~runner[s] /\ kids[s] = "none"

\* C4: every submission eventually produces a response.
C4_EveryRequestAnswered ==
    <>(\A s \in Subs : Sourced(s) => pc[s] \in {"done", "absent"})

\* C5: the run stage of a C++ submission executes the artifact compiled from
\* its own source, whatever the other submission does.
C5_RunsOwnArtifact ==
    \A s \in Subs :
        Lang(s) = "cpp" /\ top[s] /= "none" => prog[s] = req[s].code

\* C6: when every stage succeeded the response has success = true and its
\* output is what the run stage wrote to its standard output.
C6_SuccessCarriesStdout ==
    \A s \in Subs :
        Sourced(s) /\ Done(s) /\ execRes[s].Success =>
            LastResp(s).Success /\ LastResp(s).Output = wroteOut[s]

C6_Witness ==
    \E s \in Subs :
        /\ Sourced(s) /\ Done(s) /\ execRes[s].Success
        /\ wroteOut[s] /= Empty
        /\ LastResp(s).Output = wroteOut[s]

\* C7: the stages of a submission are spawned in the order compile, run, and
\* after a failed compile stage no run-stage process is spawned.
C7_CompileFailureStopsStages ==
    \A s \in Subs :
        Sourced(s) =>
            /\ spawned[s] \in
                   {Empty, <<"compile">>, <<"run">>, <<"compile", "run">>}
            /\ HasCompileStage(Lang(s)) => spawned[s] /= <<"run">>
            /\ comp[s] = "failed" => "run" \notin Tokens(spawned[s])

C7_Witness ==
    \E s \in Subs :
        /\ Sourced(s)
        /\ Done(s) /\ comp[s] = "failed" /\ spawned[s] = <<"compile">>
        /\ ~LastResp(s).Success

\* C8: a run stage whose process was waited for, and whose deadline did not
\* expire, is reported as succeeded exactly when the exit code is 0 and the
\* collected stderr is empty; every failure comes with a non-nil error.
C8_VerdictIsExitCodeAndStderr ==
    \A s \in Subs :
        Sourced(s) /\ waited[s] /\ Returned(s) /\ ctx[s] /= "deadline" =>
            /\ execRes[s].Success <=>
                   (status[s] = "exit status 0" /\ stderrBytes[s] = Empty)
            /\ ~execRes[s].Success => execRes[s].err /= "nil"

\* C9: when a run stage failed by itself (non-zero exit or output on stderr),
\* the error text of the response carries what the program wrote to stderr.
C9_RuntimeErrorCarriesStderr ==
    \A s \in Subs :
        /\ Sourced(s) /\ Done(s) /\ waited[s] /\ ctxKilled[s] = "none"
        /\ status[s] /= "exit status 0" \/ stderrBytes[s] /= Empty
        => Contains(LastResp(s).Error, wroteErr[s])

\* the run stage of s was ended by the deadline
RunTimedOut(s) ==
    waited[s] /\ ctxKilled[s] = "deadline" /\ status[s] = "signal: killed"

\* the run stage of s failed without any help from its context
RunFailedByItself(s) ==
    /\ waited[s] /\ ctxKilled[s] = "none" /\ watch[s] /= "interrupted"
    /\ ~execRes[s].Success

\* C10: the response to a run stage ended by the deadline differs from the
\* response to a run stage that failed by itself.
C10_TimeoutDistinguishable ==
    \A s, t \in Subs :
        Done(s) /\ Done(t) /\ RunTimedOut(s) /\ RunFailedByItself(t) =>
            LastResp(s) /= LastResp(t)

\* the deadline of the context killed the process of the run stage of s
RunKilledByDeadline(s) == ctxKilled[s] = "deadline" /\ top[s] /= "none"

\* C11: the run stage of a compiled-language submission has its full timeout:
\* when the deadline kills the run-stage process, the process has been running
\* for the whole timeout, however long the compile stage took.
C11_RunStageHasFullTimeout ==
    \A s \in Subs :
        Sourced(s) /\ HasCompileStage(Lang(s)) /\ RunKilledByDeadline(s) =>
            elapsed[s] - startedAt[s] >= Timeout(Lang(s))

\* the tag of s passes validation but no case of the switch handles it
Unsupported(s) ==
    req[s].parse /\ ValidRequest(req[s]) /\ ~HasExecutor(Lang(s))

\* C12: a submission whose language has no executor is answered with a
\* failure, and no source file was created for it.
C12_UnsupportedLanguageFails ==
    \A s \in Subs :
        Unsupported(s) /\ Done(s) =>
            ~LastResp(s).Success /\ filename[s] = NoFile

\* C13: after a C++ or Java submission has returned, execution_zone holds
\* none of the files the submission created, neither its source file nor the
\* artifact of its compile stage (here for a submission that succeeded, the
\* only one in flight).
C13_NoFileLeftBehind ==
    \A s \in Subs :
        Lang(s) \in {"cpp", "java"} /\ Done(s) /\ LastResp(s).Success =>
            ~Exists(filename[s]) /\ ~Exists(Artifact(s))

\* the paths submission s has written so far: its source file, and the
\* artifact once its compile stage has succeeded
Writes(s) ==
    (IF filename[s] /= NoFile THEN {filename[s]} ELSE {})
    \cup (IF comp[s] = "ok" THEN {Artifact(s)} ELSE {})

\* C14: the paths one submission writes are disjoint from the paths any other
\* submission writes (here for two C++ submissions in flight together).
C14_WorkspacesDisjoint ==
    \A s, t \in Subs :
        s /= t /\ Lang(s) = "cpp" /\ Lang(t) = "cpp" =>
            Writes(s) \cap Writes(t) = {}

\* the run stage of s was started
RunSpawned(s) == "run" \in Tokens(spawned[s])

\* C15: the two streams of the run stage are kept apart in the response: the
\* output holds only what the program wrote to stdout, the error text holds
\* nothing the program wrote to stdout, and an error text taken from the
\* error stream holds only what the program wrote to stderr.
C15_StreamsKeptApart ==
    \A s \in Subs :
        Sourced(s) /\ Done(s) /\ RunSpawned(s) =>
            /\ Tokens(LastResp(s).Output) \subseteq Tokens(wroteOut[s])
            /\ Tokens(LastResp(s).Error) \cap Tokens(wroteOut[s]) = {}
            /\ execRes[s].at = "stderr" =>
                   Tokens(execRes[s].Error) \subseteq Tokens(wroteErr[s])

C15_Witness ==
    \E s \in Subs :
        /\ Sourced(s) /\ Done(s) /\ RunSpawned(s)
        /\ wroteOut[s] /= Empty /\ wroteErr[s] /= Empty
        /\ execRes[s].at = "stderr"
        /\ Contains(LastResp(s).Error, wroteErr[s])

\* C16: in every response output is present only with success = true and
\* error only with success = false.
C16_OutputXorError ==
    \A s \in Subs :
        \A i \in 1..Len(resp[s]) :
            /\ resp[s][i].Success => resp[s][i].Error = Empty
            /\ ~resp[s][i].Success => resp[s][i].Output = Empty

C16_Witness ==
    \E s \in Subs :
        /\ Done(s) /\ wroteOut[s] /= Empty
        /\ ~LastResp(s).Success
        /\ LastResp(s).Error /= Empty /\ LastResp(s).Output = Empty

RECURSIVE LinesText(_, _)
\* the first n lines, each followed by one newline
LinesText(lines, n) ==
    IF n = 0 THEN Empty
    ELSE LinesText(lines, n - 1) \o <<lines[n], "\n">>

\* what has gone into the stdin pipe of s: what the program has read from it
\* (only "cat" reads, and copies what it reads) and what is still in the pipe
Delivered(s) ==
    IF prog[s] = "cat" THEN wroteOut[s] \o inbuf[s] ELSE inbuf[s]

\* C17: the stdin writer writes the lines of stdinput in their order, each
\* followed by one newline, and then closes the stream, also when there is no
\* line; before that the stream is closed only by cmd.Wait, and the writer
\* stops early only after a failed write.  A program that reads to
\* end-of-input and exits has read every line and seen the end.
C17_StdinInOrderThenClosed ==
    \A s \in Subs :
        Sourced(s) /\ RunSpawned(s) =>
            /\ Delivered(s) = LinesText(req[s].stdin, wr[s].i)
            /\ wr[s].st = "done" => inClosed[s]
            /\ inClosed[s] => wr[s].st = "done" \/ waited[s]
            /\ inClosed[s] /\ wr[s].i < Len(req[s].stdin) =>
                   ~HasReader(s) \/ waited[s]
            /\ prog[s] = "cat" /\ status[s] = "exit status 0" =>
                   /\ inClosed[s]
                   /\ wroteOut[s] = LinesText(req[s].stdin, Len(req[s].stdin))

C17_Witness ==
    \E s \in Subs :
        /\ Sourced(s) /\ Done(s)
        /\ prog[s] = "cat" /\ status[s] = "exit status 0"
        /\ Len(req[s].stdin) = MaxLines
        /\ inClosed[s]
        /\ wroteOut[s] = LinesText(req[s].stdin, MaxLines)

\* C18: when an executor returns after cmd.Wait, the stdin-writer goroutine it
\* started has terminated.
C18_WriterJoinedOnReturn ==
    \A s \in Subs :
        Sourced(s) /\ Returned(s) /\ waited[s] => wr[s].st = "done"

\* the source file of s was created and has been removed again
Removed(s) == filename[s] /= NoFile /\ ~Exists(filename[s])

\* C19: the source file of a submission exists before any of its processes is
\* spawned, and it is removed only when no process of the submission runs any
\* more (the compiler, the started process, the program, a descendant) and
\* both pipes are drained.
C19_FileOutlivesProcesses ==
    \A s \in Subs :
        Sourced(s) =>
            /\ spawned[s] /= Empty => filename[s] /= NoFile
            /\ Removed(s) =>
                   /\ comp[s] /= "running"
                   /\ top[s] \in {"none", "reaped"}
                   /\ ~runner[s] /\ kids[s] = "none"
                   /\ outbuf[s] = Empty /\ errbuf[s] = Empty

\* what the compiler writes about the source of s
Diagnostics(s) == CompilerOutput(FileName(filename[s]), req[s].code)

\* the compile stage of s failed by itself: the compiler ran to its end and
\* rejected the source
CompilerRejected(s) ==
    /\ comp[s] = "failed" /\ spawned[s] = <<"compile">>
    /\ ctxKilled[s] = "none"

\* C20: when the compile stage fails, the error of the executor and the error
\* of the response carry everything the compiler wrote, on both its streams.
C20_CompileErrorCarriesOutput ==
    \A s \in Subs :
        Sourced(s) /\ CompilerRejected(s) /\ Done(s) =>
            /\ Contains(execRes[s].Error, Diagnostics(s))
            /\ Contains(LastResp(s).Error, Diagnostics(s))
            /\ ~LastResp(s).Success

C20_Witness ==
    \E s \in Subs :
        /\ Lang(s) = "cpp" /\ CompilerRejected(s) /\ Done(s)
        /\ Diagnostics(s) /= Empty
        /\ Contains(LastResp(s).Error, Diagnostics(s))

\* the text is one of the executors' reports of a failed compilation
SaysCompilationFailed(t) ==
    "Compilation Failed :" \in Tokens(t) \/ "Compilation failed: " \in Tokens(t)

\* the compiler of s could not be started: its binary was not found
ToolchainMissing(s) ==
    execRes[s].at = "compile" /\ execRes[s].err = "executable file not found"

\* C21: when the compiler binary cannot be found, the failure is not reported
\* as a compilation failure of the submitted program.
C21_MissingToolchainIsInternal ==
    \A s \in Subs :
        Sourced(s) /\ Done(s) /\ ToolchainMissing(s) =>
            /\ ~SaysCompilationFailed(execRes[s].Error)
            /\ ~SaysCompilationFailed(LastResp(s).Error)

\* the tokens the processes of s have written to their standard streams
StreamTokens(s) ==
    Tokens(wroteOut[s]) \cup Tokens(wroteErr[s])
    \cup (IF "compile" \in Tokens(spawned[s])
            THEN Tokens(Diagnostics(s)) ELSE {})

\* C22: when the deadline ended a stage of s, the response carries nothing of
\* what the stage's process had written to stdout or stderr.
C22_TimeoutDiscardsOutput ==
    \A s \in Subs :
        Sourced(s) /\ Done(s) /\ ctxKilled[s] = "deadline" =>
            /\ LastResp(s).Output = Empty
            /\ Tokens(LastResp(s).Error) \cap StreamTokens(s) = {}

\* the request of s was accepted and CreateFile has written no source file
NoSourceFile(s) ==
    req[s].parse /\ ValidRequest(req[s]) /\ filename[s] = NoFile

\* C23: without a source file no process is ever spawned, and when CreateFile
\* failed the submission is answered with a failure that says so.
C23_CreateFileFailureSpawnsNothing ==
    \A s \in Subs :
        NoSourceFile(s) =>
            /\ spawned[s] = Empty /\ comp[s] = "none" /\ top[s] = "none"
            /\ ctx[s] = "none"
            /\ Done(s) =>
                   /\ ~LastResp(s).Success /\ LastResp(s).status = 400
                   /\ Head(LastResp(s).Error) = "Error in creating file: "

C23_Witness ==
    \E s \in Subs :
        /\ NoSourceFile(s) /\ Done(s)
        /\ ~LastResp(s).Success /\ spawned[s] = Empty

\* C24: every submission is answered exactly once: no submission gets two
\* responses, and every submission received eventually has its response.
C24_ExactlyOneResponse ==
    \A s \in Subs :
        /\ [](Len(resp[s]) <= 1)
        /\ (pc[s] = "recv" /\ Sourced(s)) ~> (Len(resp[s]) = 1)

(***************************************************************************)
(* The same submission processed twice, the second time after the first    *)
(* has been answered.                                                      *)
(***************************************************************************)
InitTwice ==
    /\ req \in {[s \in Subs |-> r] :
                  r \in [parse : {TRUE}, code : {"hello", "warn", "badsyntax"},
                         lang : {"js", "cpp"}, stdin : {Empty, <<"a">>}]}
    /\ zone \in BOOLEAN
    /\ InitState(Subs)

NextTwice == Step(1) \/ (Done(1) /\ Step(2))

SpecTwice == InitTwice /\ [][NextTwice]_vars

\* s was processed without a failure of the environment and without a kill:
\* its compiler rejected the source, or its run stage succeeded
RanClean(s) == Done(s) /\ (CompilerRejected(s) \/ execRes[s].Success)

\* C25: the same submission processed twice, one after the other, gets the
\* same response both times, also when it fails to compile.
C25_SameSubmissionSameResponse ==
    \A s, t \in Subs :
        req[s] = req[t] /\ RanClean(s) /\ RanClean(t) =>
            LastResp(s) = LastResp(t)

(***************************************************************************)
(* utils.DeleteFile by itself: called on the paths of a filled             *)
(* execution_zone, again and again, and on a path that never existed.      *)
(***************************************************************************)
ZonePaths == {SourcePath(s) : s \in Subs} \cup {CPPExecutable(1), JavaClassFile(1)}

\* no request is in flight; every path of the zone holds some file
InitRelease ==
    /\ req = [s \in Subs |-> Idle]
    /\ zone = TRUE
    /\ files \in [ZonePaths -> {"hello", "bye", "cat"}]
    /\ pc = [s \in Subs |-> "absent"]
    /\ filename = [s \in Subs |-> NoFile]
    /\ ctx = [s \in Subs |-> "none"]
    /\ comp = [s \in Subs |-> "none"]
    /\ top = [s \in Subs |-> "none"]
    /\ status = [s \in Subs |-> "none"]
    /\ runner = [s \in Subs |-> FALSE]
    /\ prog = [s \in Subs |-> NoCode]
    /\ ip = [s \in Subs |-> 1]
    /\ kids = [s \in Subs |-> "none"]
    /\ inbuf = [s \in Subs |-> Empty]
    /\ outbuf = [s \in Subs |-> Empty]
    /\ errbuf = [s \in Subs |-> Empty]
    /\ inClosed = [s \in Subs |-> FALSE]
    /\ wr = [s \in Subs |-> [st |-> "none", i |-> 0]]
    /\ stdoutBytes = [s \in Subs |-> Empty]
    /\ stderrBytes = [s \in Subs |-> Empty]
    /\ watch = [s \in Subs |-> "none"]
    /\ waited = [s \in Subs |-> FALSE]
    /\ ctxKilled = [s \in Subs |-> "none"]
    /\ execRes = [s \in Subs |-> NoRes]
    /\ resp = [s \in Subs |-> Empty]
    /\ spawned = [s \in Subs |-> Empty]
    /\ wroteOut = [s \in Subs |-> Empty]
    /\ wroteErr = [s \in Subs |-> Empty]
    /\ elapsed = [s \in Subs |-> 0]
    /\ startedAt = [s \in Subs |-> 0]

\* one call utils.DeleteFile(p)
Release(p) ==
    /\ files' = DeleteFile(files, p)
    /\ UNCHANGED <<req, pc, zone, filename, ctx, comp, procVars, pipeVars, wr,
                   readVars, watch, waited, ctxKilled, execRes, resp, spawned,
                   clockVars>>

NextRelease == \E p \in ZonePaths \cup {NoFile} : Release(p)

SpecRelease == InitRelease /\ [][NextRelease]_vars

\* C26: DeleteFile is idempotent: a second call on the same path changes
\* nothing, and a call on a path that does not exist (removed before, or never
\* there) leaves the filesystem as it is.
C26_DeleteFileIdempotent ==
    \A p \in ZonePaths \cup {NoFile} :
        /\ DeleteFile(DeleteFile(files, p), p) = DeleteFile(files, p)
        /\ ~Exists(p) => DeleteFile(files, p) = files
        /\ ~(p \in DOMAIN DeleteFile(files, p))

C26_Witness ==
    \E p \in ZonePaths :
        /\ ~Exists(p) /\ DOMAIN files /= {}
        /\ DeleteFile(files, p) = files

\* the languages the specification calls compiled
CompiledLanguages == {"cpp", "go", "java"}

\* C27: a submission in a compiled language is executed as a compile process
\* followed by a run process, one in an interpreted language as a single run
\* process.
C27_StagesByLanguage ==
    \A s \in Subs :
        Sourced(s) /\ RunSpawned(s) =>
            spawned[s] = IF Lang(s) \in CompiledLanguages
                           THEN <<"compile", "run">>
                           ELSE <<"run">>

(***************************************************************************)
(* The first two requests of a fresh service, on a filesystem that refuses *)
(* nothing: os.Mkdir fails only when the directory exists, os.WriteFile    *)
(* only when the directory is missing.                                     *)
(***************************************************************************)
FileSystemWorks(s) ==
    /\ pc[s] = "mkdir" /\ ~zone => zone'
    /\ pc[s] = "write" /\ zone => filename'[s] /= NoFile

NextRace == \E s \in Subs : Step(s) /\ FileSystemWorks(s)

InitRace ==
    /\ req = [s \in Subs |->
                IF s = 1
                  THEN [parse |-> TRUE, code |-> "warn", lang |-> "cpp",
                        stdin |-> <<"a">>]
                  ELSE [parse |-> TRUE, code |-> "hello", lang |-> "js",
                        stdin |-> Empty]]
    /\ zone = FALSE
    /\ InitState(Subs)

SpecRace == InitRace /\ [][NextRace]_vars

\* C28: when several submissions call CreateFile while execution_zone does
\* not exist yet, every call succeeds: each gets its source file.
C28_ConcurrentCreateFileSucceeds ==
    \A s \in Subs :
        pc[s] \notin {"recv", "stat", "mkdir", "write"} => filename[s] /= NoFile

\* the program of s does not read its input, was given some, and ended by
\* itself with exit code 0 and nothing on stderr, before its deadline
QuietSuccessIgnoringStdin(s) ==
    /\ prog[s] \in {"hello", "bye"} /\ req[s].stdin /= Empty
    /\ status[s] = "exit status 0" /\ wroteErr[s] = Empty
    /\ ctx[s] /= "deadline"

\* C29: a run stage whose program ignores its input and exits with code 0 and
\* empty stderr is reported as a success, whatever the stdin writer did.
C29_VerdictIgnoresStdinWriter ==
    \A s \in Subs :
        Sourced(s) /\ waited[s] /\ Returned(s) /\ QuietSuccessIgnoringStdin(s) =>
            execRes[s].Success

\* the stdin writer of s has ended before it wrote every line: a Write failed
WriterStoppedEarly(s) == wr[s].st = "done" /\ wr[s].i < Len(req[s].stdin)

\* C30: once a Write to the process's input has failed, the writer has written
\* no line beyond the ones before, the context is done, the process the
\* executor started runs no more, and the input stream is closed.
C30_FailedWriteCancelsAndCloses ==
    \A s \in Subs :
        Sourced(s) /\ WriterStoppedEarly(s) =>
            /\ Delivered(s) = LinesText(req[s].stdin, wr[s].i)
            /\ ctx[s] /= "live"
            /\ top[s] /= "running"
            /\ inClosed[s]

C30_Witness ==
    \E s \in Subs :
        /\ Sourced(s) /\ WriterStoppedEarly(s) /\ InRunStage(s)
        /\ ClosedInput(s)
        /\ ctxKilled[s] = "canceled" /\ status[s] = "signal: killed"
        /\ inClosed[s]

(***************************************************************************)
(* The pair an executor returns.                                           *)
(***************************************************************************)
\* ExecuteJS, ExecuteGo, ExecuteCPP or ExecuteJava has returned for s
ExecutorReturned(s) ==
    /\ Lang(s) \in {"js", "go", "cpp", "java"}
    /\ Returned(s)
    /\ execRes[s].at /= "none"

\* C31: every executor returns a nil error exactly when the result says
\* Success; a successful result has an empty Error, a failed result has a
\* non-empty Error and an empty Output.
C31_ResultAndErrorAgree ==
    \A s \in Subs :
        ExecutorReturned(s) =>
            /\ (execRes[s].err = "nil") <=> execRes[s].Success
            /\ execRes[s].Success => execRes[s].Error = Empty
            /\ ~execRes[s].Success =>
                   execRes[s].Error /= Empty /\ execRes[s].Output = Empty

\* a program that ended with exit status 0 after writing to stderr and to
\* stdout: the executor returned a failure and an error it made itself
C31_Witness ==
    \E s \in Subs :
        /\ ExecutorReturned(s)
        /\ execRes[s].at = "stderr"
        /\ status[s] = "exit status 0"
        /\ stdoutBytes[s] /= Empty
        /\ execRes[s].Error = stderrBytes[s]
        /\ execRes[s].err /= "nil"

(***************************************************************************)
(* The executor's error and the answer of CompileProgram.                  *)
(***************************************************************************)
\* C32: the answer to a submission whose executor returned is success = true
\* under status 200 exactly when the executor's error was nil, and
\* success = false under status 400 exactly when it was not; there is no
\* third kind of answer.
C32_AnswerFollowsExecutorError ==
    \A s \in Subs :
        ExecutorReturned(s) /\ Done(s) =>
            /\ Len(resp[s]) = 1
            /\ (LastResp(s).Success /\ LastResp(s).status = 200)
                   <=> execRes[s].err = "nil"
            /\ (~LastResp(s).Success /\ LastResp(s).status = 400)
                   <=> execRes[s].err /= "nil"

\* a run stage that cmd.Wait reported as failed, answered with 400
C32_Witness ==
    \E s \in Subs :
        /\ ExecutorReturned(s) /\ Done(s)
        /\ execRes[s].at = "wait"
        /\ execRes[s].err = "exit status 1"
        /\ LastResp(s).status = 400
        /\ ~LastResp(s).Success

(***************************************************************************)
(* Collecting the exit of the run-stage process.                           *)
(***************************************************************************)
\* C33: once the executor has returned, the run-stage process it started has
\* been waited for (cmd.Wait collected its exit), on every return path.
C33_StartedProcessIsWaited ==
    \A s \in Subs :
        Sourced(s) /\ RunSpawned(s) /\ Returned(s) => waited[s]

(***************************************************************************)
(* Requests that are turned away before CreateFile.                        *)
(***************************************************************************)
\* the body is not JSON, the code is missing, or the language is not one of
\* the enumerated names
Rejected(s) ==
    \/ ~req[s].parse
    \/ req[s].code = NoCode
    \/ req[s].lang \notin OneOfLanguages

\* what a turned-away submission has of its own: nothing
Untouched(s) ==
    /\ pc[s] \in {"absent", "recv", "done"}
    /\ filename[s] = NoFile
    /\ spawned[s] = Empty
    /\ ctx[s] = "none" /\ comp[s] = "none" /\ top[s] = "none"
    /\ wr[s].st = "none"
    /\ execRes[s] = NoRes

\* the one step of a turned-away submission: a failure is written, and the
\* directory and its files stay as they were
TurnedAway(s) ==
    /\ pc[s] = "recv" /\ pc'[s] = "done"
    /\ zone' = zone /\ files' = files
    /\ Len(resp'[s]) = 1
    /\ ~resp'[s][1].Success
    /\ resp'[s][1].status = 400
    /\ resp'[s][1].Output = Empty
    /\ Head(resp'[s][1].Error) =
           IF req[s].parse THEN "Validation Error: " ELSE "Parsing Error: "

\* C34: a request that fails parsing or validation is answered with a
\* failure; answering it leaves the directory and its files unchanged, and
\* nothing of CreateFile or of an executor ever happens for it (no file name,
\* no context, no compiler, no process, no stdin writer, no executor result).
C34_RejectedRequestTouchesNothing ==
    /\ [](\A s \in Subs : Rejected(s) => Untouched(s))
    /\ [][\A s \in Subs :
             Rejected(s) /\ pc'[s] /= pc[s] => TurnedAway(s)]_vars

\* a request in a language outside the enumeration was answered
C34_Witness ==
    \E s \in Subs :
        /\ req[s].parse /\ req[s].code /= NoCode
        /\ req[s].lang \notin OneOfLanguages
        /\ Done(s)
        /\ LastResp(s).status = 400
        /\ Head(LastResp(s).Error) = "Validation Error: "
        /\ files = [p \in {} |-> NoCode]

====
